---- MODULE Spec2Model ----
(***************************************************************************)
(* Walk-in queue of the barbershop point of sale: the WalkInQueue table,   *)
(* the Barber table's availability flag, the handlers of                   *)
(* app/routers/queue.py that read and write them, and the quick actions of *)
(* app/routers/quick.py with the customer, order, payment and loyalty rows *)
(* they write.  Each handler runs to completion against the store, so each *)
(* is one action.  Money is counted in cents.                              *)
(***************************************************************************)
EXTENDS Integers, Sequences, FiniteSets, TLC

VARIABLES
    entries,               \* walkin_queue rows, by id
    barbers,               \* barbers rows, by id
    customers,             \* customers rows, by id
    orders,                \* orders rows, by id
    order_services,        \* order_services rows, by id
    payments,              \* payments rows, by id
    loyalty_transactions,  \* loyalty_transactions rows, by id
    requests,              \* the requests between two of their commits
    gift_cards,            \* gift_cards rows, by id
    gift_card_transactions,\* gift_card_transactions rows, by id
    drawer_state,          \* the dict drawer_state of routers/cash_drawer.py
    membership_plans,      \* membership_plans rows, by id
    customer_memberships,  \* customer_memberships rows, by id
    response               \* what the last request returned

vars == <<entries, barbers, customers, orders, order_services, payments,
          loyalty_transactions, requests, gift_cards, gift_card_transactions,
          drawer_state, membership_plans, customer_memberships, response>>

\* the tables only routers/quick.py writes
sales == <<customers, orders, order_services, payments, loyalty_transactions>>

\* the state only routers/gift_cards.py, routers/cash_drawer.py and
\* routers/memberships.py write
back_office == <<gift_cards, gift_card_transactions, drawer_state,
                 membership_plans, customer_memberships>>

\* ---- bounds of the model ------------------------------------------------
\* queue entries ever created, in the specifications without timestamps
\* written after the join (join, call, remove, barber updates)
MaxEntries == 4
\* queue entries ever created, in the specifications with the whole lifecycle
MaxLifecycleEntries == 2
\* barbers of the shop (seed_database creates them)
MaxBarbers == 2
\* queue entries and orders ever created, in the specification with the
\* quick actions
MaxQuickEntries == 1
MaxOrders == 1
\* requests served at the same time, and queue entries ever created in the
\* specifications where requests interleave
MaxRequests == 2
MaxConcurrentEntries == 3
\* queue entries ever created, in the specifications with the endpoints
\* that only read
MaxReadEntries == 2
\* the counts get_detailed_wait_times is computed for: waiting entries,
\* entries in service, available barbers
MaxWaiting == 5
MaxInService == 2
MaxAvailable == 3
\* the largest estimate, in half minutes, get_wait_recommendation is asked
\* about
MaxHalfMinutes == 120
\* queue entries and orders ever created, in the specification of the
\* checkout with several services under way
MaxCheckoutEntries == 2
MaxCheckoutOrders == 2

\* gift cards ever created, and gift card transactions ever recorded
MaxGiftCards == 2
MaxGiftTransactions == 5

\* cash transactions recorded between an open and the next open
MaxCashTransactions == 3

\* customers and membership plans ever created, and memberships ever
\* subscribed, in the specification of the memberships
MaxMembers == 2
MaxPlans == 1
MaxMemberships == 3

\* ---- values -------------------------------------------------------------
None == "None"
\* a phone number is the sequence of its characters; a walk-in who gives
\* none has NULL or "", which Python and SQL LIKE treat alike: false as a
\* condition, and containing no phone number a lookup can ask for
NoPhone == <<>>
\* a NULL customer_id: customer ids start at 1, and Python tests the column
\* for truth, which NULL and 0 both fail
NoCustomer == 0
\* datetime.utcnow(): no modelled handler compares two timestamps, so a
\* timestamp column is either None or this one value.
utcnow == "utcnow"

FIXED_SERVICE_MINUTES == 25

ActiveStatuses == {"waiting", "called"}

\* entry ids and barber ids a request may carry; the last one of each never
\* exists in the store.
EntryIds == 1..(MaxEntries + 1)
LifecycleIds == 1..(MaxLifecycleEntries + 1)
QuickIds == 1..(MaxQuickEntries + 1)
\* a barber that exists and one that does not: the handlers taking a
\* barber_id only look it up
SomeBarberIds == {1, MaxBarbers + 1}
BarberIds == 1..(MaxBarbers + 1)
OrderIds == 1..(MaxOrders + 1)
ConcurrentIds == 1..(MaxConcurrentEntries + 1)
\* the requests the server works on at the same time (FastAPI runs the
\* handlers, plain def functions, on a thread pool)
Requests == 1..MaxRequests
\* a thread with no request
Idle == [op |-> "idle"]

\* the phone numbers and customer ids a join request may carry
Phones == {NoPhone, <<5, 5, 5, 0, 1>>}
CustomerIds == {NoCustomer, 1}
\* the phone numbers of the walk-ins the lookup is tried on, and the phone
\* numbers and parts of phone numbers it is asked for
ReadPhones == {NoPhone, <<5, 5, 5, 0, 1>>, <<5, 5, 5, 0, 2>>}
LookupPhones == {<<5, 5, 5, 0, 1>>, <<5, 5, 5>>, <<0, 2>>, <<9>>}
ReadIds == 1..(MaxReadEntries + 1)
CheckoutEntryIds == 1..(MaxCheckoutEntries + 1)
CheckoutOrderIds == 1..(MaxCheckoutOrders + 1)

\* SEED_SERVICES: "Regular Haircut" is service 1 at 25.00; ids above the
\* seeded ones do not exist
RegularHaircut == [id |-> 1, name |-> "Regular Haircut", base_price |-> 2500]
SeededServices == 20
ServiceIds == {RegularHaircut.id, SeededServices + 1}

\* the tip percentage a checkout request carries (its default, 20.0)
TipPercents == {20}

\* gift card amounts, in cents: below, at and above the limits of
\* create_gift_card ($10 and $500) and reload_gift_card ($10); a redeemed
\* amount is any float, a negative one included
InitialBalances == {900, 1000, 50000, 50100}
RedeemAmounts == {-500, 1000, 2500}
ReloadAmounts == {900, 1000}
\* generate_card_code draws codes until one is unused: a card's code is
\* modelled by the card's id, and a request carries the code of a card or
\* a code no card has
GiftCodes == 1..(MaxGiftCards + 1)

\* the amounts of cash transactions and the starting cash, in cents;
\* DrawerOpen.starting_cash defaults to 200.0
CashAmounts == {500, 1250}
StartingCash == {0, 20000}

\* the customer ids and plan ids a membership request may carry: those of
\* the rows and one no row has
MemberIds == 1..(MaxMembers + 1)
PlanIds == 1..(MaxPlans + 1)
\* the phone numbers of the customers created for the memberships, and the
\* monthly price of a plan, in cents
MemberPhones == {<<5, 5, 5, 0, 1>>, <<5, 5, 5, 0, 2>>}
PlanPrices == {2999}
\* now + timedelta(days=30), as utcnow is the one value of a timestamp
in_thirty_days == "utcnow + 30 days"

\* ---- queries ------------------------------------------------------------
SetMax(S) == CHOOSE m \in S : \A x \in S : x <= m

\* max_pos without its status filter: the largest position of any row
max_pos_any_status(es) ==
    LET P == {es[i].position : i \in DOMAIN es}
    IN  IF P = {} THEN 0 ELSE SetMax(P)

\* db.query(func.max(WalkInQueue.position)).filter(status in (waiting,
\* called)).scalar() or 0
max_pos(es) ==
    LET P == {es[i].position : i \in {j \in DOMAIN es : es[j].status \in ActiveStatuses}}
    IN  IF P = {} THEN 0 ELSE SetMax(P)

\* db.query(WalkInQueue).filter(status == "waiting").count()
waiting_count(es) == Cardinality({i \in DOMAIN es : es[i].status = "waiting"})

\* db.query(Barber).filter(Barber.is_available == True).count()
active_barbers(bs) == Cardinality({b \in DOMAIN bs : bs[b].is_available})

\* estimated_wait of add_to_queue
join_estimate(es, bs) == waiting_count(es) * FIXED_SERVICE_MINUTES

\* ahead of get_queue_position and lookup_queue_by_phone: the waiting rows
\* with position < entry.position
people_ahead(es, entry_id) ==
    Cardinality({i \in DOMAIN es : /\ es[i].status = "waiting"
                                   /\ es[i].position < es[entry_id].position})

\* the estimate without the division by the available barbers
simple_estimate_one_barber(ahead, bs) == ahead * FIXED_SERVICE_MINUTES

\* (ahead * 25) // max(active_barbers, 1)
simple_estimate(ahead, bs) ==
    (ahead * FIXED_SERVICE_MINUTES)
        \div (IF active_barbers(bs) > 1 THEN active_barbers(bs) ELSE 1)

\* WalkInQueue.customer_phone.contains(phone): customer_phone LIKE
\* '%' || phone || '%'
Contains(customer_phone, phone) ==
    \E k \in 0..(Len(customer_phone) - Len(phone)) :
        SubSeq(customer_phone, k + 1, k + Len(phone)) = phone

\* lookup_matches without its status filter
lookup_matches_any_status(es, phone) ==
    {i \in DOMAIN es : Contains(es[i].customer_phone, phone)}

\* the rows lookup_queue_by_phone's query matches; it takes .first() of
\* them without an ORDER BY
lookup_matches(es, phone) ==
    {i \in DOMAIN es : /\ Contains(es[i].customer_phone, phone)
                       /\ es[i].status \in ActiveStatuses}

\* remaining without its position filter: every other waiting row
remaining_any_position(es, entry_id) ==
    {i \in DOMAIN es : i # entry_id /\ es[i].status = "waiting"}

\* remaining with the status filter of the active queue: waiting and called
remaining_active(es, entry_id) ==
    {i \in DOMAIN es : /\ i # entry_id
                       /\ es[i].status \in ActiveStatuses
                       /\ es[i].position > es[entry_id].position}

\* the rows remove_from_queue renumbers: status == "waiting" and
\* position > entry.position, read after the entry's status was committed
remaining(es, entry_id) ==
    {i \in DOMAIN es : /\ i # entry_id
                       /\ es[i].status = "waiting"
                       /\ es[i].position > es[entry_id].position}

\* raise HTTPException(status_code=404, detail=...)
NotFound == [status_code |-> 404]

\* the module-level dict drawer_state as the import of cash_drawer.py
\* leaves it; amounts are in cents
DrawerAtImport ==
    [is_open |-> FALSE,
     opened_at |-> None,
     starting_cash |-> 0,
     cash_sales |-> 0,
     cash_added |-> 0,
     cash_removed |-> 0,
     transactions |-> <<>>]

\* ---- Init ---------------------------------------------------------------
\* the tables after create_all and seed_database: no queue entry, the seeded
\* barbers with is_available at its column default
Init ==
    /\ entries = <<>>
    /\ barbers = [b \in 1..MaxBarbers |-> [is_available |-> TRUE]]
    /\ customers = <<>>
    /\ orders = <<>>
    /\ order_services = <<>>
    /\ payments = <<>>
    /\ loyalty_transactions = <<>>
    /\ requests = [r \in Requests |-> Idle]
    /\ gift_cards = <<>>
    /\ gift_card_transactions = <<>>
    /\ drawer_state = DrawerAtImport
    /\ membership_plans = <<>>
    /\ customer_memberships = <<>>
    /\ response = [status_code |-> 0]

\* ---- handlers of routers/queue.py ---------------------------------------
add_to_queue(customer_phone, customer_id) ==
    LET position == max_pos(entries) + 1
        estimated_wait == join_estimate(entries, barbers)
        id == Len(entries) + 1
        queue_entry == [customer_phone |-> customer_phone,
                        customer_id |-> customer_id,
                        position |-> position,
                        status |-> "waiting",
                        estimated_wait |-> estimated_wait,
                        check_in_time |-> utcnow,
                        called_time |-> None,
                        completed_time |-> None]
    IN  /\ entries' = Append(entries, queue_entry)
        /\ response' = [status_code |-> 200,
                        id |-> id,
                        position |-> queue_entry.position,
                        estimated_wait |-> estimated_wait,
                        message |-> "Added to queue"]
        /\ UNCHANGED <<back_office, barbers, sales, requests>>

\* add_to_queue up to the construction of the row: max_pos and
\* waiting_count are read
add_to_queue_read(r, customer_phone, customer_id) ==
    /\ requests' = [requests EXCEPT ![r] =
                       [op |-> "add_to_queue",
                        customer_phone |-> customer_phone,
                        customer_id |-> customer_id,
                        max_pos |-> max_pos(entries),
                        estimated_wait |-> join_estimate(entries, barbers)]]
    /\ UNCHANGED <<back_office, entries, barbers, sales, response>>

\* add_to_queue from db.add(queue_entry) on: the row is inserted with the
\* position computed from the max_pos read before
add_to_queue_insert(r) ==
    LET read == requests[r]
        id == Len(entries) + 1
        queue_entry == [customer_phone |-> read.customer_phone,
                        customer_id |-> read.customer_id,
                        position |-> read.max_pos + 1,
                        status |-> "waiting",
                        estimated_wait |-> read.estimated_wait,
                        check_in_time |-> utcnow,
                        called_time |-> None,
                        completed_time |-> None]
    IN  /\ entries' = Append(entries, queue_entry)
        /\ requests' = [requests EXCEPT ![r] = Idle]
        /\ response' = [status_code |-> 200,
                        id |-> id,
                        position |-> queue_entry.position,
                        estimated_wait |-> read.estimated_wait,
                        message |-> "Added to queue"]
        /\ UNCHANGED <<back_office, barbers, sales>>

\* call_customer as a toggle: calling a called entry puts it back to waiting
call_customer_toggle(entry_id) ==
    IF entry_id \notin DOMAIN entries
    THEN /\ response' = NotFound
         /\ UNCHANGED <<back_office, entries, barbers, sales, requests>>
    ELSE /\ entries' = [entries EXCEPT
                          ![entry_id].status = IF @ = "called" THEN "waiting" ELSE "called",
                          ![entry_id].called_time = utcnow]
         /\ response' = [status_code |-> 200, message |-> "Customer called",
                         status |-> entries'[entry_id].status]
         /\ UNCHANGED <<back_office, barbers, sales, requests>>

call_customer(entry_id) ==
    IF entry_id \notin DOMAIN entries
    THEN /\ response' = NotFound
         /\ UNCHANGED <<back_office, entries, barbers, sales, requests>>
    ELSE /\ entries' = [entries EXCEPT ![entry_id].status = "called",
                                       ![entry_id].called_time = utcnow]
         /\ response' = [status_code |-> 200, message |-> "Customer called",
                         status |-> "called"]
         /\ UNCHANGED <<back_office, barbers, sales, requests>>

\* start_service writing the status before it looks the barber up
start_service_commit_first(entry_id, barber_id) ==
    IF entry_id \notin DOMAIN entries
    THEN /\ response' = NotFound
         /\ UNCHANGED <<back_office, entries, barbers, sales, requests>>
    ELSE /\ entries' = [entries EXCEPT ![entry_id].status = "in_service"]
         /\ response' = IF barber_id \notin DOMAIN barbers
                         THEN NotFound
                         ELSE [status_code |-> 200, message |-> "Service started"]
         /\ UNCHANGED <<back_office, barbers, sales, requests>>

start_service(entry_id, barber_id) ==
    IF entry_id \notin DOMAIN entries
    THEN /\ response' = NotFound
         /\ UNCHANGED <<back_office, entries, barbers, sales, requests>>
    ELSE IF barber_id \notin DOMAIN barbers
    THEN /\ response' = NotFound
         /\ UNCHANGED <<back_office, entries, barbers, sales, requests>>
    ELSE /\ entries' = [entries EXCEPT ![entry_id].status = "in_service"]
         /\ response' = [status_code |-> 200, message |-> "Service started"]
         /\ UNCHANGED <<back_office, barbers, sales, requests>>

\* complete_queue_entry renumbering as a removal does
complete_queue_entry_renumber(entry_id) ==
    IF entry_id \notin DOMAIN entries
    THEN /\ response' = NotFound
         /\ UNCHANGED <<back_office, entries, barbers, sales, requests>>
    ELSE /\ entries' = [i \in DOMAIN entries |->
                          IF i = entry_id
                          THEN [entries[i] EXCEPT !.status = "completed",
                                                  !.completed_time = utcnow]
                          ELSE IF i \in remaining(entries, entry_id)
                          THEN [entries[i] EXCEPT !.position = @ - 1]
                          ELSE entries[i]]
         /\ response' = [status_code |-> 200, message |-> "Service completed"]
         /\ UNCHANGED <<back_office, barbers, sales, requests>>

complete_queue_entry(entry_id) ==
    IF entry_id \notin DOMAIN entries
    THEN /\ response' = NotFound
         /\ UNCHANGED <<back_office, entries, barbers, sales, requests>>
    ELSE /\ entries' = [entries EXCEPT ![entry_id].status = "completed",
                                       ![entry_id].completed_time = utcnow]
         /\ response' = [status_code |-> 200, message |-> "Service completed"]
         /\ UNCHANGED <<back_office, barbers, sales, requests>>

remove_from_queue(entry_id) ==
    IF entry_id \notin DOMAIN entries
    THEN /\ response' = NotFound
         /\ UNCHANGED <<back_office, entries, barbers, sales, requests>>
    ELSE LET left == [entries EXCEPT ![entry_id].status = "left"]
             rem == remaining(left, entry_id)
         IN  /\ entries' = [i \in DOMAIN left |->
                              IF i \in rem
                              THEN [left[i] EXCEPT !.position = @ - 1]
                              ELSE left[i]]
             /\ response' = [status_code |-> 200, message |-> "Removed from queue"]
             /\ UNCHANGED <<back_office, barbers, sales, requests>>

\* remove_from_queue up to its first db.commit(): the status is written
remove_from_queue_status(r, entry_id) ==
    IF entry_id \notin DOMAIN entries
    THEN /\ response' = NotFound
         /\ UNCHANGED <<back_office, entries, barbers, sales, requests>>
    ELSE /\ entries' = [entries EXCEPT ![entry_id].status = "left"]
         /\ requests' = [requests EXCEPT ![r] = [op |-> "remove_from_queue",
                                                  entry_id |-> entry_id]]
         /\ UNCHANGED <<back_office, barbers, sales, response>>

\* remove_from_queue from its first db.commit() to its second: the entry,
\* expired by the commit, is read again, the remaining rows are read and
\* moved down
remove_from_queue_renumber(r) ==
    LET entry_id == requests[r].entry_id
        rem == remaining(entries, entry_id)
    IN  /\ entries' = [i \in DOMAIN entries |->
                         IF i \in rem
                         THEN [entries[i] EXCEPT !.position = @ - 1]
                         ELSE entries[i]]
        /\ requests' = [requests EXCEPT ![r] = Idle]
        /\ response' = [status_code |-> 200, message |-> "Removed from queue"]
        /\ UNCHANGED <<back_office, barbers, sales>>

\* GET /queue/{entry_id}/status
get_queue_position(entry_id) ==
    IF entry_id \notin DOMAIN entries
    THEN /\ response' = NotFound
         /\ UNCHANGED <<back_office, entries, barbers, sales, requests>>
    ELSE LET entry == entries[entry_id]
             ahead == people_ahead(entries, entry_id)
             estimated_wait == simple_estimate(ahead, barbers)
         IN  /\ response' = [status_code |-> 200,
                             id |-> entry_id,
                             position |-> entry.position,
                             people_ahead |-> ahead,
                             status |-> entry.status,
                             estimated_wait_minutes |-> estimated_wait]
             /\ UNCHANGED <<back_office, entries, barbers, sales, requests>>

\* ordered_by_position without its status filter: every row, by position
ordered_by_position_any_status(es) ==
    LET n == Len(es)
    IN  {ids \in [1..n -> DOMAIN es] :
            /\ \A k, l \in 1..n : k # l => ids[k] # ids[l]
            /\ \A k \in 1..(n - 1) : es[ids[k]].position <= es[ids[k + 1]].position}

\* the results of filter(status in (waiting, called)).order_by(position)
\* .all(): the matching ids in ascending position; the query names no second
\* sort key, so rows with the same position come in any order
ordered_by_position(es) ==
    LET active == {i \in DOMAIN es : es[i].status \in ActiveStatuses}
        n == Cardinality(active)
    IN  {ids \in [1..n -> active] :
            /\ \A k, l \in 1..n : k # l => ids[k] # ids[l]
            /\ \A k \in 1..(n - 1) : es[ids[k]].position <= es[ids[k + 1]].position}

\* GET /queue/, without wait_time_minutes, which is computed from the clock
get_queue ==
    /\ \E ids \in ordered_by_position(entries) :
          response' = [status_code |-> 200,
                       result |-> [k \in DOMAIN ids |->
                                     [id |-> ids[k],
                                      customer_phone |-> entries[ids[k]].customer_phone,
                                      customer_id |-> entries[ids[k]].customer_id,
                                      position |-> entries[ids[k]].position,
                                      status |-> entries[ids[k]].status,
                                      estimated_wait |-> entries[ids[k]].estimated_wait,
                                      check_in_time |-> entries[ids[k]].check_in_time,
                                      called_time |-> entries[ids[k]].called_time]]]
    /\ UNCHANGED <<back_office, entries, barbers, sales, requests>>

\* GET /queue/stats, without average_wait_minutes, which is computed from
\* the clock
get_queue_stats ==
    LET waiting == waiting_count(entries)
        called == Cardinality({i \in DOMAIN entries : entries[i].status = "called"})
        in_service == Cardinality({i \in DOMAIN entries : entries[i].status = "in_service"})
        estimated_wait == simple_estimate(waiting, barbers)
    IN  /\ response' = [status_code |-> 200,
                        waiting |-> waiting,
                        called |-> called,
                        in_service |-> in_service,
                        active_barbers |-> active_barbers(barbers),
                        estimated_wait_new |-> estimated_wait]
        /\ UNCHANGED <<back_office, entries, barbers, sales, requests>>

\* GET /queue/lookup/{phone}
lookup_queue_by_phone(phone) ==
    LET matches == lookup_matches(entries, phone)
    IN  /\ IF matches = {}
           THEN response' = [status_code |-> 200, found |-> FALSE]
           ELSE \E entry_id \in matches :
                   LET entry == entries[entry_id]
                       ahead == people_ahead(entries, entry_id)
                       estimated_wait == simple_estimate(ahead, barbers)
                   IN  response' = [status_code |-> 200,
                                    found |-> TRUE,
                                    id |-> entry_id,
                                    position |-> entry.position,
                                    people_ahead |-> ahead,
                                    status |-> entry.status,
                                    estimated_wait_minutes |-> estimated_wait]
        /\ UNCHANGED <<back_office, entries, barbers, sales, requests>>

\* ---- the detailed estimate of routers/queue.py --------------------------
\* Python floats are modelled as exact fractions num / den, den > 0
Ratio(num, den) == [num |-> num, den |-> den]
Plus(x, y) == Ratio(x.num * y.den + y.num * x.den, x.den * y.den)
\* x <= n, n an integer
AtMost(x, n) == x.num <= n * x.den
\* round(x) of Python 3 for x >= 0: to the nearest integer, a half to the
\* even one
Round(x) ==
    LET q == x.num \div x.den
        r == x.num % x.den
    IN  IF 2 * r < x.den THEN q
        ELSE IF 2 * r > x.den THEN q + 1
        ELSE IF q % 2 = 0 THEN q ELSE q + 1

\* the historical average service time in minutes, 25 when no order was
\* completed in the last seven days
AvgServiceTimes == {25, 30}

\* total_estimate counting the services under way in full
total_estimate_full_service(waiting, in_service, available, avg_service_time) ==
    IF available > 0
    THEN Plus(Ratio(in_service * avg_service_time, available),
              Ratio(waiting * avg_service_time, available))
    ELSE Ratio(waiting * avg_service_time, 1)

\* total_estimate of get_detailed_wait_times, available standing for its
\* active_barbers: in_service * avg * 0.5 / available + waiting * avg /
\* available, or waiting * avg when no barber is available
total_estimate(waiting, in_service, available, avg_service_time) ==
    IF available > 0
    THEN Plus(Ratio(in_service * avg_service_time, 2 * available),
              Ratio(waiting * avg_service_time, available))
    ELSE Ratio(waiting * avg_service_time, 1)

\* get_wait_recommendation with < in place of <=
get_wait_recommendation_strict(wait_minutes) ==
    IF wait_minutes.num < 10 * wait_minutes.den THEN "low"
    ELSE IF wait_minutes.num < 25 * wait_minutes.den THEN "moderate"
    ELSE IF wait_minutes.num < 45 * wait_minutes.den THEN "busy"
    ELSE "very_busy"

get_wait_recommendation(wait_minutes) ==
    IF AtMost(wait_minutes, 10) THEN "low"
    ELSE IF AtMost(wait_minutes, 25) THEN "moderate"
    ELSE IF AtMost(wait_minutes, 45) THEN "busy"
    ELSE "very_busy"

\* get_detailed_wait_times for the counts and the average of the request
\* record; the statistics of the day, computed from the clock, are left out
detailed_wait_times(counts) ==
    LET estimate == total_estimate(counts.waiting, counts.in_service,
                                   counts.active_barbers, counts.avg_service_time)
    IN  [status_code |-> 200,
         waiting |-> counts.waiting,
         in_service |-> counts.in_service,
         active_barbers |-> counts.active_barbers,
         average_service_time |-> counts.avg_service_time,
         total_estimate |-> estimate,
         new_walkin_wait_minutes |-> Round(estimate),
         recommendation |-> get_wait_recommendation(estimate)]

\* ---- handler of routers/barbers.py --------------------------------------
\* PATCH /barbers/{barber_id} with is_available set
update_barber(barber_id, is_available) ==
    IF barber_id \notin DOMAIN barbers
    THEN /\ response' = NotFound
         /\ UNCHANGED <<back_office, entries, barbers, sales, requests>>
    ELSE /\ barbers' = [barbers EXCEPT ![barber_id].is_available = is_available]
         /\ response' = [status_code |-> 200, id |-> barber_id,
                         is_available |-> is_available]
         /\ UNCHANGED <<back_office, entries, sales, requests>>

\* ---- handlers of routers/quick.py ---------------------------------------
\* (waiting_count * 25) // max(active_barbers, 1)
quick_estimate(es, bs) ==
    (waiting_count(es) * FIXED_SERVICE_MINUTES)
        \div (IF active_barbers(bs) > 1 THEN active_barbers(bs) ELSE 1)

\* round(base_price * 0.0875, 2), in cents
sales_tax(subtotal) == (subtotal * 875 + 5000) \div 10000

\* round(order.subtotal * (tip_percent / 100), 2), in cents
tip_for(subtotal, tip_percent) == (subtotal * tip_percent + 50) \div 100

\* int(order.subtotal): one point per whole dollar
points_for(subtotal) == subtotal \div 100

\* db.query(Customer).filter(Customer.phone == phone); phone is unique
customers_by_phone(cs, phone) == {c \in DOMAIN cs : cs[c].phone = phone}

\* the rows quick_checkout's queue query matches; it takes .first() of them
\* without an ORDER BY
in_service_of(es, customer_id) ==
    {i \in DOMAIN es : es[i].customer_id = customer_id /\ es[i].status = "in_service"}

quick_walkin(phone, service_id) ==
    LET found == customers_by_phone(customers, phone)
        creates == phone # NoPhone /\ found = {}
        customer_id == IF phone = NoPhone THEN NoCustomer
                       ELSE IF found # {} THEN CHOOSE c \in found : TRUE
                       ELSE Len(customers) + 1
        position == max_pos(entries) + 1
        estimated_wait == quick_estimate(entries, barbers)
        queue_entry == [customer_phone |-> phone,
                        customer_id |-> customer_id,
                        position |-> position,
                        status |-> "waiting",
                        estimated_wait |-> estimated_wait,
                        check_in_time |-> utcnow,
                        called_time |-> None,
                        completed_time |-> None]
    IN  \* the new customer is committed before the service is looked up
        /\ customers' = IF creates
                        THEN Append(customers, [phone |-> phone,
                                                loyalty_points |-> 0,
                                                lifetime_points |-> 0,
                                                visit_count |-> 0,
                                                total_spent |-> 0,
                                                last_visit_date |-> None])
                        ELSE customers
        /\ IF service_id \notin 1..SeededServices
           THEN /\ response' = NotFound
                /\ UNCHANGED entries
           ELSE /\ entries' = Append(entries, queue_entry)
                /\ response' = [status_code |-> 200,
                                queue_id |-> Len(entries) + 1,
                                position |-> queue_entry.position,
                                estimated_wait |-> estimated_wait,
                                customer_id |-> customer_id,
                                message |-> "added to queue"]
        /\ UNCHANGED <<back_office, barbers, orders, order_services, payments, loyalty_transactions,
                     requests>>

\* quick_walkin up to the construction of the row: the customer is looked
\* up or created, the service looked up, max_pos and the counts read
quick_walkin_read(r, phone, service_id) ==
    LET found == customers_by_phone(customers, phone)
        creates == phone # NoPhone /\ found = {}
        customer_id == IF phone = NoPhone THEN NoCustomer
                       ELSE IF found # {} THEN CHOOSE c \in found : TRUE
                       ELSE Len(customers) + 1
    IN  /\ customers' = IF creates
                        THEN Append(customers, [phone |-> phone,
                                                loyalty_points |-> 0,
                                                lifetime_points |-> 0,
                                                visit_count |-> 0,
                                                total_spent |-> 0,
                                                last_visit_date |-> None])
                        ELSE customers
        /\ IF service_id \notin 1..SeededServices
           THEN /\ response' = NotFound
                /\ UNCHANGED requests
           ELSE /\ requests' = [requests EXCEPT ![r] =
                                  [op |-> "quick_walkin",
                                   customer_phone |-> phone,
                                   customer_id |-> customer_id,
                                   max_pos |-> max_pos(entries),
                                   estimated_wait |-> quick_estimate(entries, barbers)]]
                /\ UNCHANGED response
        /\ UNCHANGED <<back_office, entries, barbers, orders, order_services, payments,
                       loyalty_transactions>>

\* quick_walkin from db.add(queue_entry) on
quick_walkin_insert(r) ==
    LET read == requests[r]
        queue_entry == [customer_phone |-> read.customer_phone,
                        customer_id |-> read.customer_id,
                        position |-> read.max_pos + 1,
                        status |-> "waiting",
                        estimated_wait |-> read.estimated_wait,
                        check_in_time |-> utcnow,
                        called_time |-> None,
                        completed_time |-> None]
    IN  /\ entries' = Append(entries, queue_entry)
        /\ requests' = [requests EXCEPT ![r] = Idle]
        /\ response' = [status_code |-> 200,
                        queue_id |-> Len(entries) + 1,
                        position |-> queue_entry.position,
                        estimated_wait |-> read.estimated_wait,
                        customer_id |-> read.customer_id,
                        message |-> "added to queue"]
        /\ UNCHANGED <<back_office, barbers, sales>>

quick_start_service(queue_id, barber_id) ==
    IF queue_id \notin DOMAIN entries
    THEN /\ response' = NotFound
         /\ UNCHANGED <<back_office, entries, barbers, sales, requests>>
    ELSE IF barber_id \notin DOMAIN barbers
    THEN /\ response' = NotFound
         /\ UNCHANGED <<back_office, entries, barbers, sales, requests>>
    ELSE LET service == RegularHaircut
             subtotal == service.base_price
             tax == sales_tax(service.base_price)
             \* queue_id is history: the Order row of the code has no
             \* column for the queue entry it was created from
             order == [queue_id |-> queue_id,
                       customer_id |-> entries[queue_id].customer_id,
                       barber_id |-> barber_id,
                       status |-> "in_progress",
                       subtotal |-> subtotal,
                       tax |-> tax,
                       tip |-> 0,
                       total |-> subtotal + tax,
                       started_at |-> utcnow,
                       completed_at |-> None]
             order_id == Len(orders) + 1
         IN  /\ orders' = Append(orders, order)
             /\ order_services' = Append(order_services,
                                         [order_id |-> order_id,
                                          service_type_id |-> service.id,
                                          quantity |-> 1,
                                          unit_price |-> service.base_price])
             /\ entries' = [entries EXCEPT ![queue_id].status = "in_service"]
             /\ response' = [status_code |-> 200,
                             order_id |-> order_id,
                             subtotal |-> order.subtotal,
                             tax |-> order.tax,
                             total |-> order.total]
             /\ UNCHANGED <<back_office, barbers, customers, payments, loyalty_transactions,
                             requests>>

quick_checkout(order_id, tip_percent) ==
    IF order_id \notin DOMAIN orders
    THEN /\ response' = NotFound
         /\ UNCHANGED <<back_office, entries, barbers, sales, requests>>
    ELSE IF orders[order_id].status = "completed"
    THEN /\ response' = [status_code |-> 400, detail |-> "Order already completed"]
         /\ UNCHANGED <<back_office, entries, barbers, sales, requests>>
    ELSE LET order == orders[order_id]
             tip_amount == tip_for(order.subtotal, tip_percent)
             total == order.subtotal + order.tax + tip_amount
             points == points_for(order.subtotal)
             awards == order.customer_id # NoCustomer /\ order.customer_id \in DOMAIN customers
             matching == in_service_of(entries, order.customer_id)
         IN  /\ payments' = Append(payments, [order_id |-> order_id,
                                              amount |-> order.subtotal + order.tax,
                                              tip_amount |-> tip_amount,
                                              method |-> "card"])
             /\ orders' = [orders EXCEPT ![order_id].tip = tip_amount,
                                         ![order_id].total = total,
                                         ![order_id].status = "completed",
                                         ![order_id].completed_at = utcnow]
             /\ IF awards
                THEN /\ customers' =
                          [customers EXCEPT
                             ![order.customer_id].loyalty_points = @ + points,
                             ![order.customer_id].lifetime_points = @ + points,
                             ![order.customer_id].visit_count = @ + 1,
                             ![order.customer_id].total_spent = @ + total,
                             ![order.customer_id].last_visit_date = utcnow]
                     /\ loyalty_transactions' =
                          Append(loyalty_transactions,
                                 [customer_id |-> order.customer_id,
                                  order_id |-> order_id,
                                  points |-> points,
                                  transaction_type |-> "earned"])
                ELSE UNCHANGED <<customers, loyalty_transactions>>
             /\ IF matching = {}
                THEN UNCHANGED entries
                ELSE \E queue_entry \in matching :
                        entries' = [entries EXCEPT
                                      ![queue_entry].status = "completed",
                                      ![queue_entry].completed_time = utcnow]
             /\ response' = [status_code |-> 200,
                             order_id |-> order_id,
                             subtotal |-> order.subtotal,
                             tax |-> order.tax,
                             tip |-> tip_amount,
                             total |-> total,
                             points_earned |-> IF order.customer_id # NoCustomer
                                               THEN points ELSE 0]
             /\ UNCHANGED <<back_office, barbers, order_services, requests>>

\* ---- handler of routers/loyalty.py -------------------------------------
POINTS_PER_DOLLAR == 1

\* int(order.subtotal * POINTS_PER_DOLLAR)
points_earned_for(subtotal) == (subtotal * POINTS_PER_DOLLAR) \div 100

\* the earned transactions of the order
earned_for(ts, order_id) ==
    {t \in DOMAIN ts : /\ ts[t].order_id = order_id
                       /\ ts[t].transaction_type = "earned"}

\* POST /loyalty/earn
earn_points(order_id) ==
    IF order_id \notin DOMAIN orders
    THEN /\ response' = NotFound
         /\ UNCHANGED <<back_office, entries, barbers, sales, requests>>
    ELSE LET order == orders[order_id]
             points_earned == points_earned_for(order.subtotal)
             existing == earned_for(loyalty_transactions, order_id)
         IN  IF order.customer_id = NoCustomer
             THEN /\ response' = [status_code |-> 200,
                                  message |-> "No customer linked to order"]
                  /\ UNCHANGED <<back_office, entries, barbers, sales, requests>>
             ELSE IF order.customer_id \notin DOMAIN customers
             THEN /\ response' = NotFound
                  /\ UNCHANGED <<back_office, entries, barbers, sales, requests>>
             ELSE IF points_earned <= 0
             THEN /\ response' = [status_code |-> 200,
                                  message |-> "No points earned", points |-> 0]
                  /\ UNCHANGED <<back_office, entries, barbers, sales, requests>>
             ELSE IF existing # {}
             THEN /\ \E t \in existing :
                        response' = [status_code |-> 200,
                                     message |-> "Points already awarded",
                                     points |-> loyalty_transactions[t].points]
                  /\ UNCHANGED <<back_office, entries, barbers, sales, requests>>
             ELSE /\ customers' =
                        [customers EXCEPT
                           ![order.customer_id].loyalty_points = @ + points_earned,
                           ![order.customer_id].lifetime_points = @ + points_earned]
                  /\ loyalty_transactions' =
                        Append(loyalty_transactions,
                               [customer_id |-> order.customer_id,
                                order_id |-> order_id,
                                points |-> points_earned,
                                transaction_type |-> "earned"])
                  /\ response' = [status_code |-> 200,
                                  message |-> "Awarded points",
                                  points_earned |-> points_earned,
                                  new_balance |-> customers'[order.customer_id].loyalty_points]
                  /\ UNCHANGED <<back_office, entries, barbers, orders, order_services,
                                 payments, requests>>

\* ---- handlers of routers/gift_cards.py ----------------------------------
\* db.query(GiftCard).filter(GiftCard.code == code.upper()).first()
card_by_code(cards, code) == IF code \in DOMAIN cards THEN code ELSE 0

\* raise HTTPException(status_code=400, detail=...)
BadRequest(detail) == [status_code |-> 400, detail |-> detail]

create_gift_card(initial_balance) ==
    IF initial_balance < 1000
    THEN /\ response' = BadRequest("Minimum gift card value is $10")
         /\ UNCHANGED <<entries, barbers, sales, requests, back_office>>
    ELSE IF initial_balance > 50000
    THEN /\ response' = BadRequest("Maximum gift card value is $500")
         /\ UNCHANGED <<entries, barbers, sales, requests, back_office>>
    ELSE LET id == Len(gift_cards) + 1
         IN  /\ gift_cards' = Append(gift_cards,
                                [initial_balance |-> initial_balance,
                                 current_balance |-> initial_balance,
                                 is_active |-> TRUE])
             /\ gift_card_transactions' =
                    Append(gift_card_transactions,
                           [gift_card_id |-> id,
                            amount |-> initial_balance,
                            transaction_type |-> "purchase"])
             /\ response' = [status_code |-> 200, id |-> id,
                             balance |-> initial_balance]
             /\ UNCHANGED <<entries, barbers, sales, requests, drawer_state,
                            membership_plans, customer_memberships>>

\* redeem_gift_card without the test of the balance
redeem_gift_card_unchecked(code, amount) ==
    LET id == card_by_code(gift_cards, code)
    IN  IF id = 0
        THEN /\ response' = NotFound
             /\ UNCHANGED <<entries, barbers, sales, requests, back_office>>
        ELSE IF ~gift_cards[id].is_active
        THEN /\ response' = BadRequest("Gift card is not active")
             /\ UNCHANGED <<entries, barbers, sales, requests, back_office>>
        ELSE /\ gift_cards' = [gift_cards EXCEPT
                                  ![id].current_balance = @ - amount]
             /\ gift_card_transactions' =
                    Append(gift_card_transactions,
                           [gift_card_id |-> id,
                            amount |-> -amount,
                            transaction_type |-> "redemption"])
             /\ response' = [status_code |-> 200,
                             remaining_balance |-> gift_cards'[id].current_balance,
                             amount_applied |-> amount]
             /\ UNCHANGED <<entries, barbers, sales, requests, drawer_state,
                            membership_plans, customer_memberships>>

redeem_gift_card(code, amount) ==
    LET id == card_by_code(gift_cards, code)
    IN  IF id = 0
        THEN /\ response' = NotFound
             /\ UNCHANGED <<entries, barbers, sales, requests, back_office>>
        ELSE IF ~gift_cards[id].is_active
        THEN /\ response' = BadRequest("Gift card is not active")
             /\ UNCHANGED <<entries, barbers, sales, requests, back_office>>
        ELSE IF gift_cards[id].current_balance < amount
        THEN /\ response' = BadRequest("Insufficient balance")
             /\ UNCHANGED <<entries, barbers, sales, requests, back_office>>
        ELSE /\ gift_cards' = [gift_cards EXCEPT
                                  ![id].current_balance = @ - amount]
             /\ gift_card_transactions' =
                    Append(gift_card_transactions,
                           [gift_card_id |-> id,
                            amount |-> -amount,
                            transaction_type |-> "redemption"])
             /\ response' = [status_code |-> 200,
                             remaining_balance |-> gift_cards'[id].current_balance,
                             amount_applied |-> amount]
             /\ UNCHANGED <<entries, barbers, sales, requests, drawer_state,
                            membership_plans, customer_memberships>>

reload_gift_card(code, amount) ==
    LET id == card_by_code(gift_cards, code)
    IN  IF id = 0
        THEN /\ response' = NotFound
             /\ UNCHANGED <<entries, barbers, sales, requests, back_office>>
        ELSE IF amount < 1000
        THEN /\ response' = BadRequest("Minimum reload amount is $10")
             /\ UNCHANGED <<entries, barbers, sales, requests, back_office>>
        ELSE /\ gift_cards' = [gift_cards EXCEPT
                                  ![id].current_balance = @ + amount]
             /\ gift_card_transactions' =
                    Append(gift_card_transactions,
                           [gift_card_id |-> id,
                            amount |-> amount,
                            transaction_type |-> "reload"])
             /\ response' = [status_code |-> 200,
                             new_balance |-> gift_cards'[id].current_balance]
             /\ UNCHANGED <<entries, barbers, sales, requests, drawer_state,
                            membership_plans, customer_memberships>>

\* ---- handlers of routers/cash_drawer.py ---------------------------------
\* drawer_state["starting_cash"] + ["cash_sales"] + ["cash_added"]
\* - ["cash_removed"]
current_cash(drawer) ==
    drawer.starting_cash + drawer.cash_sales + drawer.cash_added
    - drawer.cash_removed

\* open_drawer keeping the transactions of the day before
open_drawer_keep_transactions(starting_cash) ==
    /\ IF drawer_state.is_open
       THEN /\ response' = [error |-> "Drawer already open"]
            /\ UNCHANGED drawer_state
       ELSE /\ drawer_state' = [drawer_state EXCEPT
                                  !.is_open = TRUE,
                                  !.opened_at = utcnow,
                                  !.starting_cash = starting_cash,
                                  !.cash_sales = 0,
                                  !.cash_added = 0,
                                  !.cash_removed = 0]
            /\ response' = [message |-> "Drawer opened",
                            starting_cash |-> starting_cash]
    /\ UNCHANGED <<entries, barbers, sales, requests, gift_cards,
                   gift_card_transactions, membership_plans,
                   customer_memberships>>

open_drawer(starting_cash) ==
    /\ IF drawer_state.is_open
       THEN /\ response' = [error |-> "Drawer already open"]
            /\ UNCHANGED drawer_state
       ELSE /\ drawer_state' = [is_open |-> TRUE,
                                opened_at |-> utcnow,
                                starting_cash |-> starting_cash,
                                cash_sales |-> 0,
                                cash_added |-> 0,
                                cash_removed |-> 0,
                                transactions |-> <<>>]
            /\ response' = [message |-> "Drawer opened",
                            starting_cash |-> starting_cash]
    /\ UNCHANGED <<entries, barbers, sales, requests, gift_cards,
                   gift_card_transactions, membership_plans,
                   customer_memberships>>

close_drawer ==
    /\ IF ~drawer_state.is_open
       THEN /\ response' = [error |-> "Drawer not open"]
            /\ UNCHANGED drawer_state
       ELSE /\ drawer_state' = [drawer_state EXCEPT !.is_open = FALSE]
            /\ response' = [message |-> "Drawer closed",
                            starting_cash |-> drawer_state.starting_cash,
                            cash_sales |-> drawer_state.cash_sales,
                            cash_added |-> drawer_state.cash_added,
                            cash_removed |-> drawer_state.cash_removed,
                            expected_cash |-> current_cash(drawer_state),
                            transactions_count |-> Len(drawer_state.transactions)]
    /\ UNCHANGED <<entries, barbers, sales, requests, gift_cards,
                   gift_card_transactions, membership_plans,
                   customer_memberships>>

record_sale(amount) ==
    /\ IF ~drawer_state.is_open
       THEN /\ response' = [error |-> "Drawer not open"]
            /\ UNCHANGED drawer_state
       ELSE /\ drawer_state' = [drawer_state EXCEPT
                                  !.cash_sales = @ + amount,
                                  !.transactions =
                                      Append(@, [type |-> "sale",
                                                 amount |-> amount,
                                                 time |-> utcnow])]
            /\ response' = [message |-> "Sale recorded", amount |-> amount]
    /\ UNCHANGED <<entries, barbers, sales, requests, gift_cards,
                   gift_card_transactions, membership_plans,
                   customer_memberships>>

add_cash(amount) ==
    /\ IF ~drawer_state.is_open
       THEN /\ response' = [error |-> "Drawer not open"]
            /\ UNCHANGED drawer_state
       ELSE /\ drawer_state' = [drawer_state EXCEPT
                                  !.cash_added = @ + amount,
                                  !.transactions =
                                      Append(@, [type |-> "add",
                                                 amount |-> amount,
                                                 time |-> utcnow])]
            /\ response' = [message |-> "Cash added", amount |-> amount]
    /\ UNCHANGED <<entries, barbers, sales, requests, gift_cards,
                   gift_card_transactions, membership_plans,
                   customer_memberships>>

remove_cash(amount) ==
    /\ IF ~drawer_state.is_open
       THEN /\ response' = [error |-> "Drawer not open"]
            /\ UNCHANGED drawer_state
       ELSE /\ drawer_state' = [drawer_state EXCEPT
                                  !.cash_removed = @ + amount,
                                  !.transactions =
                                      Append(@, [type |-> "remove",
                                                 amount |-> amount,
                                                 time |-> utcnow])]
            /\ response' = [message |-> "Cash removed", amount |-> amount]
    /\ UNCHANGED <<entries, barbers, sales, requests, gift_cards,
                   gift_card_transactions, membership_plans,
                   customer_memberships>>

\* ---- handler of routers/customers.py -----------------------------------
create_customer(phone) ==
    IF customers_by_phone(customers, phone) # {}
    THEN /\ response' = BadRequest("Phone number already registered")
         /\ UNCHANGED <<entries, barbers, sales, requests, back_office>>
    ELSE /\ customers' = Append(customers, [phone |-> phone,
                                            loyalty_points |-> 0,
                                            lifetime_points |-> 0,
                                            visit_count |-> 0,
                                            total_spent |-> 0,
                                            last_visit_date |-> None])
         /\ response' = [status_code |-> 200, id |-> Len(customers) + 1]
         /\ UNCHANGED <<entries, barbers, orders, order_services, payments,
                        loyalty_transactions, requests, back_office>>

\* ---- handlers of routers/memberships.py ---------------------------------
\* the customer's memberships in one of the given statuses; each handler
\* takes .first() of them without an ORDER BY
memberships_of(memberships, customer_id, statuses) ==
    {m \in DOMAIN memberships :
        /\ memberships[m].customer_id = customer_id
        /\ memberships[m].status \in statuses}

create_plan(monthly_price) ==
    /\ membership_plans' = Append(membership_plans,
                                  [monthly_price |-> monthly_price,
                                   haircuts_included |-> 0,
                                   is_active |-> TRUE])
    /\ response' = [status_code |-> 200, message |-> "Plan created",
                    id |-> Len(membership_plans) + 1]
    /\ UNCHANGED <<entries, barbers, sales, requests, gift_cards,
                   gift_card_transactions, drawer_state, customer_memberships>>

subscribe_customer(customer_id, plan_id) ==
    IF customer_id \notin DOMAIN customers \/ plan_id \notin DOMAIN membership_plans
    THEN /\ response' = NotFound
         /\ UNCHANGED <<entries, barbers, sales, requests, back_office>>
    ELSE IF memberships_of(customer_memberships, customer_id, {"active"}) # {}
    THEN /\ response' = BadRequest("Customer already has an active membership")
         /\ UNCHANGED <<entries, barbers, sales, requests, back_office>>
    ELSE /\ customer_memberships' =
                Append(customer_memberships,
                       [customer_id |-> customer_id,
                        plan_id |-> plan_id,
                        status |-> "active",
                        start_date |-> utcnow,
                        next_billing_date |-> in_thirty_days,
                        cancelled_at |-> None,
                        haircuts_used_this_month |-> 0,
                        last_reset_date |-> utcnow])
         /\ response' = [status_code |-> 200,
                         message |-> "Membership activated",
                         membership_id |-> Len(customer_memberships) + 1]
         /\ UNCHANGED <<entries, barbers, sales, requests, gift_cards,
                        gift_card_transactions, drawer_state, membership_plans>>

pause_membership(customer_id) ==
    LET matching == memberships_of(customer_memberships, customer_id, {"active"})
    IN  IF matching = {}
        THEN /\ response' = NotFound
             /\ UNCHANGED <<entries, barbers, sales, requests, back_office>>
        ELSE /\ \E membership \in matching :
                  customer_memberships' =
                      [customer_memberships EXCEPT ![membership].status = "paused"]
             /\ response' = [status_code |-> 200, message |-> "Membership paused"]
             /\ UNCHANGED <<entries, barbers, sales, requests, gift_cards,
                            gift_card_transactions, drawer_state, membership_plans>>

resume_membership(customer_id) ==
    LET matching == memberships_of(customer_memberships, customer_id, {"paused"})
    IN  IF matching = {}
        THEN /\ response' = NotFound
             /\ UNCHANGED <<entries, barbers, sales, requests, back_office>>
        ELSE /\ \E membership \in matching :
                  customer_memberships' =
                      [customer_memberships EXCEPT
                          ![membership].status = "active",
                          ![membership].next_billing_date = in_thirty_days]
             /\ response' = [status_code |-> 200, message |-> "Membership resumed"]
             /\ UNCHANGED <<entries, barbers, sales, requests, gift_cards,
                            gift_card_transactions, drawer_state, membership_plans>>

cancel_membership(customer_id) ==
    LET matching == memberships_of(customer_memberships, customer_id,
                                   {"active", "paused"})
    IN  IF matching = {}
        THEN /\ response' = NotFound
             /\ UNCHANGED <<entries, barbers, sales, requests, back_office>>
        ELSE /\ \E membership \in matching :
                  customer_memberships' =
                      [customer_memberships EXCEPT
                          ![membership].status = "cancelled",
                          ![membership].cancelled_at = utcnow]
             /\ response' = [status_code |-> 200, message |-> "Membership cancelled"]
             /\ UNCHANGED <<entries, barbers, sales, requests, gift_cards,
                            gift_card_transactions, drawer_state, membership_plans>>

\* ---- specifications -----------------------------------------------------
\* a walk-in who gives neither a phone number nor a customer id
Join == Len(entries) < MaxEntries /\ add_to_queue(NoPhone, NoCustomer)
JoinLifecycle == Len(entries) < MaxLifecycleEntries /\ add_to_queue(NoPhone, NoCustomer)
Call == \E entry_id \in EntryIds : call_customer(entry_id)
Remove == \E entry_id \in EntryIds : remove_from_queue(entry_id)
CallLifecycle == \E entry_id \in LifecycleIds : call_customer(entry_id)
Start == \E entry_id \in LifecycleIds, barber_id \in SomeBarberIds : start_service(entry_id, barber_id)
Complete == \E entry_id \in LifecycleIds : complete_queue_entry(entry_id)
RemoveLifecycle == \E entry_id \in LifecycleIds : remove_from_queue(entry_id)
UpdateBarber == \E barber_id \in BarberIds, a \in BOOLEAN : update_barber(barber_id, a)

\* the five lifecycle operations of the queue
Next == JoinLifecycle \/ CallLifecycle \/ Start \/ Complete \/ RemoveLifecycle

Spec == Init /\ [][Next]_vars

\* join and remove only
NextJoinRemove == Join \/ Remove

SpecJoinRemove == Init /\ [][NextJoinRemove]_vars

\* join, call and remove
NextJoinCallRemove == Join \/ Call \/ Remove

SpecJoinCallRemove == Init /\ [][NextJoinCallRemove]_vars

\* every handler that writes a queue entry: the lifecycle operations and
\* the quick actions (routers/quick.py defines them on its own router, which
\* main.py does not mount)
JoinAny ==
    /\ Len(entries) < MaxQuickEntries
    /\ \E customer_id \in CustomerIds : add_to_queue(NoPhone, customer_id)
CallAny == \E entry_id \in QuickIds : call_customer(entry_id)
StartAny == \E entry_id \in QuickIds, barber_id \in SomeBarberIds : start_service(entry_id, barber_id)
CompleteAny == \E entry_id \in QuickIds : complete_queue_entry(entry_id)
RemoveAny == \E entry_id \in QuickIds : remove_from_queue(entry_id)
QuickWalkin ==
    /\ Len(entries) < MaxQuickEntries
    /\ \E phone \in Phones, service_id \in ServiceIds : quick_walkin(phone, service_id)
QuickStart ==
    /\ Len(orders) < MaxOrders
    /\ \E queue_id \in QuickIds, barber_id \in SomeBarberIds : quick_start_service(queue_id, barber_id)
QuickCheckout ==
    \E order_id \in OrderIds, tip_percent \in TipPercents : quick_checkout(order_id, tip_percent)

NextAll ==
    \/ JoinAny \/ CallAny \/ StartAny \/ CompleteAny \/ RemoveAny
    \/ QuickWalkin \/ QuickStart \/ QuickCheckout

SpecAll == Init /\ [][NextAll]_vars

\* joins and removals while barbers become available and unavailable
NextEstimate == Join \/ Remove \/ UpdateBarber

SpecEstimate == Init /\ [][NextEstimate]_vars

\* the lifecycle operations and the status check of one entry
Status == \E entry_id \in LifecycleIds : get_queue_position(entry_id)

NextStatus == Next \/ Status

SpecStatus == Init /\ [][NextStatus]_vars

\* joins while no removal is under way, and removals of waiting entries that
\* interleave at their commits
JoinConcurrent ==
    /\ Len(entries) < MaxConcurrentEntries
    /\ \A r \in Requests : requests[r] = Idle
    /\ add_to_queue(NoPhone, NoCustomer)
RemoveStatus ==
    \E r \in Requests, entry_id \in ConcurrentIds :
        /\ requests[r] = Idle
        /\ entry_id \in DOMAIN entries => entries[entry_id].status = "waiting"
        /\ remove_from_queue_status(r, entry_id)
RemoveRenumber ==
    \E r \in Requests :
        /\ requests[r].op = "remove_from_queue"
        /\ remove_from_queue_renumber(r)

NextConcurrentRemove == JoinConcurrent \/ RemoveStatus \/ RemoveRenumber

SpecConcurrentRemove == Init /\ [][NextConcurrentRemove]_vars

\* joins through add_to_queue and quick_walkin that interleave between
\* their reads and their insert
InFlight == {r \in Requests : requests[r] # Idle}
JoinRead ==
    \E r \in Requests :
        /\ requests[r] = Idle
        /\ Len(entries) + Cardinality(InFlight) < MaxConcurrentEntries
        /\ add_to_queue_read(r, NoPhone, NoCustomer)
JoinInsert ==
    \E r \in Requests :
        /\ requests[r].op = "add_to_queue"
        /\ add_to_queue_insert(r)
QuickWalkinRead ==
    \E r \in Requests, phone \in Phones, service_id \in ServiceIds :
        /\ requests[r] = Idle
        /\ Len(entries) + Cardinality(InFlight) < MaxConcurrentEntries
        /\ quick_walkin_read(r, phone, service_id)
QuickWalkinInsert ==
    \E r \in Requests :
        /\ requests[r].op = "quick_walkin"
        /\ quick_walkin_insert(r)

NextConcurrentJoin == JoinRead \/ JoinInsert \/ QuickWalkinRead \/ QuickWalkinInsert

SpecConcurrentJoin == Init /\ [][NextConcurrentJoin]_vars

\* joins with and without a phone number, removals and barbers becoming
\* available and unavailable, with the three endpoints that return the
\* simple-mode estimate
JoinPhone ==
    /\ Len(entries) < MaxReadEntries
    /\ \E customer_phone \in ReadPhones : add_to_queue(customer_phone, NoCustomer)
RemoveRead == \E entry_id \in ReadIds : remove_from_queue(entry_id)
StatusRead == \E entry_id \in ReadIds : get_queue_position(entry_id)
Lookup == \E phone \in LookupPhones : lookup_queue_by_phone(phone)
Stats == get_queue_stats

NextSimpleEstimate ==
    JoinPhone \/ RemoveRead \/ UpdateBarber \/ StatusRead \/ Lookup \/ Stats

SpecSimpleEstimate == Init /\ [][NextSimpleEstimate]_vars
\* entries with and without a phone number taken through the lifecycle in
\* its order (a waiting entry is called, a called one started, a started one
\* completed, a waiting or called one removed), and the lookup
HasStatus(entry_id, statuses) ==
    entry_id \in DOMAIN entries => entries[entry_id].status \in statuses
CallWaiting ==
    \E entry_id \in ReadIds :
        HasStatus(entry_id, {"waiting"}) /\ call_customer(entry_id)
StartCalled ==
    \E entry_id \in ReadIds, barber_id \in SomeBarberIds :
        HasStatus(entry_id, {"called"}) /\ start_service(entry_id, barber_id)
CompleteStarted ==
    \E entry_id \in ReadIds :
        HasStatus(entry_id, {"in_service"}) /\ complete_queue_entry(entry_id)
RemoveActive ==
    \E entry_id \in ReadIds :
        HasStatus(entry_id, ActiveStatuses) /\ remove_from_queue(entry_id)

NextLookup ==
    JoinPhone \/ CallWaiting \/ StartCalled \/ CompleteStarted \/ RemoveActive \/ Lookup

SpecLookup == Init /\ [][NextLookup]_vars

\* join, call and remove, with the listing of the active queue
GetQueue == get_queue

NextListing == Join \/ Call \/ Remove \/ GetQueue

SpecListing == Init /\ [][NextListing]_vars

\* entries with and without a phone number taken through the lifecycle in
\* its order, with the listing and the lookup
JoinKnown ==
    /\ Len(entries) < MaxReadEntries
    /\ \E customer_phone \in Phones : add_to_queue(customer_phone, NoCustomer)

NextRetained ==
    \/ JoinKnown \/ CallWaiting \/ StartCalled \/ CompleteStarted \/ RemoveActive
    \/ Lookup \/ GetQueue

SpecRetained == Init /\ [][NextRetained]_vars

\* the detailed estimate for every combination of counts: the request is
\* drawn at the start and answered in one step
NoRows ==
    /\ entries = <<>>
    /\ barbers = [b \in 1..MaxBarbers |-> [is_available |-> TRUE]]
    /\ customers = <<>>
    /\ orders = <<>>
    /\ order_services = <<>>
    /\ payments = <<>>
    /\ loyalty_transactions = <<>>
    /\ requests = [r \in Requests |-> Idle]
    /\ gift_cards = <<>>
    /\ gift_card_transactions = <<>>
    /\ drawer_state = DrawerAtImport
    /\ membership_plans = <<>>
    /\ customer_memberships = <<>>

InitWaitTimes ==
    /\ NoRows
    /\ response \in [waiting : 0..MaxWaiting,
                      in_service : 0..MaxInService,
                      active_barbers : 0..MaxAvailable,
                      avg_service_time : AvgServiceTimes]

WaitTimes ==
    /\ "avg_service_time" \in DOMAIN response
    /\ response' = detailed_wait_times(response)
    /\ UNCHANGED <<back_office, entries, barbers, sales, requests>>

SpecWaitTimes == InitWaitTimes /\ [][WaitTimes]_vars

\* the recommendation for every estimate from 0 to MaxHalfMinutes / 2
\* minutes, in steps of half a minute
InitRecommendation ==
    /\ NoRows
    /\ response \in [wait_minutes : {Ratio(n, 2) : n \in 0..MaxHalfMinutes}]

Recommendation ==
    /\ "level" \notin DOMAIN response
    /\ response' = [wait_minutes |-> response.wait_minutes,
                    level |-> get_wait_recommendation(response.wait_minutes)]
    /\ UNCHANGED <<back_office, entries, barbers, sales, requests>>

SpecRecommendation == InitRecommendation /\ [][Recommendation]_vars

\* joins through add_to_queue and through quick_walkin, removals and barbers
\* becoming available and unavailable
QuickJoin ==
    /\ Len(entries) < MaxReadEntries
    /\ \E phone \in Phones, service_id \in ServiceIds : quick_walkin(phone, service_id)

NextJoinPaths == JoinKnown \/ QuickJoin \/ RemoveRead \/ UpdateBarber

SpecJoinPaths == Init /\ [][NextJoinPaths]_vars

\* walk-ins with and without a customer id whose services are started and
\* checked out through the quick actions
JoinCheckout ==
    /\ Len(entries) < MaxCheckoutEntries
    /\ \E customer_id \in CustomerIds : add_to_queue(NoPhone, customer_id)
StartCheckout ==
    /\ Len(orders) < MaxCheckoutOrders
    /\ \E queue_id \in CheckoutEntryIds, barber_id \in SomeBarberIds :
          quick_start_service(queue_id, barber_id)
Checkout ==
    \E order_id \in CheckoutOrderIds, tip_percent \in TipPercents :
        quick_checkout(order_id, tip_percent)

NextCheckout == JoinCheckout \/ StartCheckout \/ Checkout

SpecCheckout == Init /\ [][NextCheckout]_vars

\* walk-ins served through the quick actions, with the loyalty endpoint
WalkinCheckout ==
    /\ Len(entries) < MaxCheckoutEntries
    /\ \E phone \in Phones, service_id \in ServiceIds : quick_walkin(phone, service_id)
EarnPoints == \E order_id \in CheckoutOrderIds : earn_points(order_id)

NextLoyalty == WalkinCheckout \/ StartCheckout \/ Checkout \/ EarnPoints

SpecLoyalty == Init /\ [][NextLoyalty]_vars

\* the gift cards alone: purchases, redemptions and reloads
CreateGiftCard ==
    /\ Len(gift_cards) < MaxGiftCards
    /\ Len(gift_card_transactions) < MaxGiftTransactions
    /\ \E initial_balance \in InitialBalances : create_gift_card(initial_balance)

RedeemGiftCard ==
    /\ Len(gift_card_transactions) < MaxGiftTransactions
    /\ \E code \in GiftCodes, amount \in RedeemAmounts :
          redeem_gift_card(code, amount)

ReloadGiftCard ==
    /\ Len(gift_card_transactions) < MaxGiftTransactions
    /\ \E code \in GiftCodes, amount \in ReloadAmounts :
          reload_gift_card(code, amount)

NextGiftCards == CreateGiftCard \/ RedeemGiftCard \/ ReloadGiftCard

SpecGiftCards == Init /\ [][NextGiftCards]_vars

\* the cash drawer alone
OpenDrawer == \E starting_cash \in StartingCash : open_drawer(starting_cash)

CloseDrawer == close_drawer

RecordSale ==
    /\ Len(drawer_state.transactions) < MaxCashTransactions
    /\ \E amount \in CashAmounts : record_sale(amount)

AddCash ==
    /\ Len(drawer_state.transactions) < MaxCashTransactions
    /\ \E amount \in CashAmounts : add_cash(amount)

RemoveCash ==
    /\ Len(drawer_state.transactions) < MaxCashTransactions
    /\ \E amount \in CashAmounts : remove_cash(amount)

NextCashDrawer ==
    OpenDrawer \/ CloseDrawer \/ RecordSale \/ AddCash \/ RemoveCash

SpecCashDrawer == Init /\ [][NextCashDrawer]_vars

\* the memberships alone, with the customers and plans they need
CreateCustomer ==
    /\ Len(customers) < MaxMembers
    /\ \E phone \in MemberPhones : create_customer(phone)

CreatePlan ==
    /\ Len(membership_plans) < MaxPlans
    /\ \E monthly_price \in PlanPrices : create_plan(monthly_price)

Subscribe ==
    /\ Len(customer_memberships) < MaxMemberships
    /\ \E customer_id \in MemberIds, plan_id \in PlanIds :
          subscribe_customer(customer_id, plan_id)

Pause == \E customer_id \in MemberIds : pause_membership(customer_id)

Resume == \E customer_id \in MemberIds : resume_membership(customer_id)

Cancel == \E customer_id \in MemberIds : cancel_membership(customer_id)

NextMemberships ==
    CreateCustomer \/ CreatePlan \/ Subscribe \/ Pause \/ Resume \/ Cancel

SpecMemberships == Init /\ [][NextMemberships]_vars

\* ---- properties ---------------------------------------------------------
ActiveIds == {i \in DOMAIN entries : entries[i].status \in ActiveStatuses}
WaitingIds == {i \in DOMAIN entries : entries[i].status = "waiting"}
AddedToQueue == response.status_code = 200 /\ response.message = "Added to queue"
RemovedFromQueue == response.status_code = 200 /\ response.message = "Removed from queue"

\* C1: after any sequence of joins and removes from the empty queue, the
\* positions of the waiting and called entries are exactly {1..N}, N their
\* number.
C1_JoinRemoveContiguous ==
    {entries[i].position : i \in ActiveIds} = 1..Cardinality(ActiveIds)

\* C2: in every state reachable by the five lifecycle operations, the waiting
\* and called entries hold the positions 1..N, each once.
C2_LifecycleContiguous ==
    /\ \A i \in ActiveIds : entries[i].position \in 1..Cardinality(ActiveIds)
    /\ \A i, j \in ActiveIds : i # j => entries[i].position # entries[j].position

\* C3: add_to_queue gives the new entry the largest position of a waiting or
\* called entry plus one (1 when there is none) and status waiting, and returns
\* the position it stored.
C3_AppendPosition ==
    [][add_to_queue(NoPhone, NoCustomer) =>
        LET id == Len(entries) + 1
        IN  /\ DOMAIN entries' = 1..id
            /\ entries'[id].status = "waiting"
            /\ ActiveIds = {} => entries'[id].position = 1
            /\ ActiveIds # {} =>
                  /\ \E i \in ActiveIds : entries'[id].position = entries[i].position + 1
                  /\ \A i \in ActiveIds : entries'[id].position > entries[i].position
            /\ response'.id = id
            /\ response'.position = entries'[id].position]_vars

\* an entry has just joined behind nobody, though the store holds an earlier
\* entry that is no longer waiting or called
C3_Witness ==
    /\ AddedToQueue
    /\ Len(entries) >= 2
    /\ response.id = Len(entries)
    /\ entries[response.id].position = 1
    /\ \E i \in DOMAIN entries : entries[i].status \notin ActiveStatuses

\* C4: add_to_queue stores and returns floor(W * 25 / max(B, 1)), W the
\* entries waiting before the insertion and B the available barbers.
C4_JoinEstimate ==
    [][add_to_queue(NoPhone, NoCustomer) =>
        LET W == Cardinality(WaitingIds)
            B == Cardinality({b \in DOMAIN barbers : barbers[b].is_available})
            expected == (W * 25) \div (IF B > 1 THEN B ELSE 1)
        IN  /\ entries'[Len(entries) + 1].estimated_wait = expected
            /\ response'.estimated_wait = expected]_vars

\* C5: removing a waiting entry at position p from a queue whose active
\* entries are all waiting marks it left, leaves every waiting entry below p
\* where it is and moves every waiting entry above p down by exactly one.
C5_RemoveFromAllWaiting ==
    [][\A id \in DOMAIN entries :
        ( /\ entries[id].status = "waiting"
          /\ ActiveIds = WaitingIds
          /\ remove_from_queue(id) ) =>
        /\ entries'[id].status = "left"
        /\ \A j \in WaitingIds \ {id} :
              /\ entries'[j].status = "waiting"
              /\ entries[j].position < entries[id].position =>
                    entries'[j].position = entries[j].position
              /\ entries[j].position > entries[id].position =>
                    entries'[j].position = entries[j].position - 1]_vars

\* positions 1,2,3,4 all waiting, then the entry at position 2 removed
C5_Witness ==
    /\ RemovedFromQueue
    /\ Len(entries) = 4
    /\ [i \in 1..4 |-> entries[i].status] = <<"waiting", "left", "waiting", "waiting">>
    /\ [i \in 1..4 |-> entries[i].position] = <<1, 2, 2, 3>>

\* C6: when an active entry is removed, every remaining waiting or called
\* entry with a greater position moves down by one.
C6_RemoveShiftsActive ==
    [][\A id \in DOMAIN entries :
        (entries[id].status \in ActiveStatuses /\ remove_from_queue(id)) =>
        \A j \in ActiveIds \ {id} :
            entries[j].position > entries[id].position =>
                entries'[j].position = entries[j].position - 1]_vars

\* C7: a removal renumbers only waiting entries with a higher position; a
\* called, in_service, completed or left entry, and the removed entry, keep
\* their position.
C7_RemoveRenumbersOnlyWaiting ==
    [][\A id \in DOMAIN entries : remove_from_queue(id) =>
        \A j \in DOMAIN entries :
            /\ entries[j].status # "waiting" => entries'[j].position = entries[j].position
            /\ entries'[j].position # entries[j].position =>
                  /\ j # id
                  /\ entries[j].status = "waiting"
                  /\ entries[j].position > entries[id].position
                  /\ entries'[j].position = entries[j].position - 1]_vars

\* a removal has just left a called entry above the removed entry's position
C7_Witness ==
    /\ RemovedFromQueue
    /\ \E i, j \in DOMAIN entries :
          /\ entries[i].status = "left"
          /\ entries[j].status = "called"
          /\ entries[j].position > entries[i].position

\* C8: of two waiting or called entries, the one that joined earlier has the
\* strictly smaller position.
C8_ArrivalOrder ==
    \A i, j \in ActiveIds : i < j => entries[i].position < entries[j].position

\* C9: an entry whose status is completed or left keeps that status under
\* every queue operation.
C9_TerminalFinal ==
    [][\A i \in DOMAIN entries :
        entries[i].status \in {"completed", "left"} =>
            entries'[i].status = entries[i].status]_vars

\* C10: no operation moves an entry back to waiting: an entry is created
\* waiting, and once its status is called, in_service, completed or left it
\* is never waiting again.
C10_NeverWaitingAgain ==
    [][/\ \A i \in DOMAIN entries :
            entries[i].status # "waiting" => entries'[i].status # "waiting"
       /\ \A i \in DOMAIN entries' \ DOMAIN entries :
            entries'[i].status = "waiting"]_vars

\* an entry that was completed has been called afterwards without becoming
\* waiting, in a store where quick_start_service has created an order
C10_Witness ==
    /\ \E i \in DOMAIN entries :
          entries[i].status = "called" /\ entries[i].completed_time # None
    /\ Len(orders) > 0

\* C11: call_customer makes an entry called only when the entry was waiting;
\* an entry that is called, in_service, completed or left is never made
\* called by a call.
C11_CallRequiresWaiting ==
    [][\A id \in DOMAIN entries :
        (call_customer(id) /\ entries'[id].status = "called") =>
            entries[id].status = "waiting"]_vars

\* C12: an entry that is called, in_service or completed has its called_time
\* set, and a waiting entry has none.
C12_CalledTimeIffCalled ==
    \A i \in DOMAIN entries :
        /\ entries[i].status \in {"called", "in_service", "completed"} =>
              entries[i].called_time # None
        /\ entries[i].status = "waiting" => entries[i].called_time = None

\* C13: an entry has its completed_time set exactly when its status is
\* completed, whichever of complete_queue_entry and quick_checkout completed
\* it and whatever operation ran afterwards.
C13_CompletedTimeIffCompleted ==
    \A i \in DOMAIN entries :
        entries[i].completed_time # None <=> entries[i].status = "completed"

\* C14: a call, start, completion, removal or status check of an entry id
\* that does not exist, and a start with a barber id that does not exist,
\* answers 404 and leaves every entry as it was.
C14_MissingIdNotFound ==
    [][/\ \A id \in LifecycleIds \ DOMAIN entries :
            ( \/ call_customer(id)
              \/ \E b \in SomeBarberIds : start_service(id, b)
              \/ complete_queue_entry(id)
              \/ remove_from_queue(id)
              \/ get_queue_position(id) ) =>
            (response'.status_code = 404 /\ entries' = entries)
       /\ \A id \in DOMAIN entries, b \in SomeBarberIds \ DOMAIN barbers :
            start_service(id, b) =>
            (response'.status_code = 404 /\ entries' = entries)]_vars

\* a request has just been answered 404 while a waiting entry stands behind
\* a called one
C14_Witness ==
    /\ response.status_code = 404
    /\ \E i, j \in DOMAIN entries :
          /\ entries[i].status = "called"
          /\ entries[j].status = "waiting"
          /\ entries[j].position > entries[i].position

\* C15: when removals of waiting entries interleave at their two commits, the
\* waiting and called entries hold the positions 1..N once every removal has
\* finished.
C15_ConcurrentRemoveContiguous ==
    (\A r \in Requests : requests[r] = Idle) =>
        {entries[i].position : i \in ActiveIds} = 1..Cardinality(ActiveIds)

\* C16: when joins through add_to_queue and quick_walkin interleave between
\* reading the largest active position and inserting, no two of the entries
\* they create, all waiting, have the same position.
C16_ConcurrentJoinDistinct ==
    \A i, j \in ActiveIds : i # j => entries[i].position # entries[j].position

AvailableBarbers == Cardinality({b \in DOMAIN barbers : barbers[b].is_available})

\* C17: the estimate the status, lookup and stats endpoints return is
\* floor(A * 25 / max(B, 1)), A the people ahead they return (for stats, the
\* people waiting) and B the available barbers: it is A * 25 when B = 0,
\* never negative, and 0 when A = 0.
C17_SimpleEstimate ==
    LET B == AvailableBarbers
        Holds(A, estimate) ==
            /\ estimate = (A * 25) \div (IF B > 1 THEN B ELSE 1)
            /\ B = 0 => estimate = A * 25
            /\ estimate >= 0
            /\ A = 0 => estimate = 0
    IN  /\ "estimated_wait_minutes" \in DOMAIN response =>
              Holds(response.people_ahead, response.estimated_wait_minutes)
        /\ "estimated_wait_new" \in DOMAIN response =>
              Holds(response.waiting, response.estimated_wait_new)

\* a lookup has just found an entry with one person ahead while no barber, or
\* more than one, is available
C17_Witness ==
    /\ "found" \in DOMAIN response
    /\ response.found
    /\ response.people_ahead = 1
    /\ AvailableBarbers # 1

\* C18: lookup_queue_by_phone returns only an entry that is waiting or
\* called; when every entry whose phone number contains the requested one is
\* in_service, completed or left, it answers found = false.
C18_LookupOnlyActive ==
    [][\A phone \in LookupPhones :
        ("found" \in DOMAIN response' /\ lookup_queue_by_phone(phone)) =>
        /\ response'.found =>
              /\ response'.id \in DOMAIN entries
              /\ entries[response'.id].status \in {"waiting", "called"}
              /\ response'.status \in {"waiting", "called"}
        /\ (\A i \in DOMAIN entries :
                Contains(entries[i].customer_phone, phone) =>
                    entries[i].status \in {"in_service", "completed", "left"}) =>
              ~response'.found]_vars

\* a lookup has just found nothing while every entry has a phone number
\* containing 555 and none is waiting or called
C18_Witness ==
    /\ "found" \in DOMAIN response
    /\ ~response.found
    /\ Len(entries) = 2
    /\ \A i \in DOMAIN entries :
          /\ Contains(entries[i].customer_phone, <<5, 5, 5>>)
          /\ entries[i].status \in {"in_service", "completed", "left"}
    /\ \E i \in DOMAIN entries : entries[i].status = "completed"

C20_PositionFrame ==
    [][/\ \A i \in DOMAIN entries :
            /\ i \in DOMAIN entries'
            /\ entries'[i].estimated_wait = entries[i].estimated_wait
            /\ entries'[i].check_in_time = entries[i].check_in_time
            /\ entries'[i].position # entries[i].position =>
                  /\ entries'[i].position = entries[i].position - 1
                  /\ \E id \in DOMAIN entries : remove_from_queue(id)
       /\ (\E i \in DOMAIN entries : entries'[i].position # entries[i].position) =>
            \A id \in LifecycleIds :
                /\ ~call_customer(id)
                /\ \A b \in SomeBarberIds : ~start_service(id, b)
                /\ ~complete_queue_entry(id)]_vars

\* a removal has just moved the second entry, which joined at position 2 with
\* an estimate of 25 minutes, to position 1 with its estimate as it was
C20_Witness ==
    /\ RemovedFromQueue
    /\ Len(entries) = 2
    /\ entries[1].status = "left"
    /\ entries[2].position = 1
    /\ entries[2].estimated_wait = 25

\* C21: no operation deletes a queue entry: every id of the store is still
\* in it after the step, completed and left entries included, and neither
\* the listing nor the phone lookup returns a completed or left entry.
C21_EntriesRetained ==
    [][/\ \A i \in DOMAIN entries : i \in DOMAIN entries'
       /\ ("result" \in DOMAIN response' /\ get_queue) =>
            \A k \in DOMAIN response'.result :
                entries[response'.result[k].id].status \notin {"completed", "left"}
       /\ \A phone \in LookupPhones :
            ("found" \in DOMAIN response' /\ lookup_queue_by_phone(phone)) =>
                (response'.found =>
                    entries[response'.id].status \notin {"completed", "left"})]_vars

\* the listing has just returned one entry from a store that also holds a
\* left entry
C21_Witness ==
    /\ "result" \in DOMAIN response
    /\ Len(response.result) = 1
    /\ Len(entries) = 2
    /\ \E i \in DOMAIN entries : entries[i].status = "left"

\* C22: with W waiting, S in service, B available barbers and average service
\* time T the detailed estimate is (S*T*0.5)/B + (W*T)/B when B > 0 and W*T
\* when B = 0; for W=5, S=2, B=3, T=30 it is 60 and the level is very_busy.
C22_DetailedEstimate ==
    "total_estimate" \in DOMAIN response =>
        LET W == response.waiting
            S == response.in_service
            B == response.active_barbers
            T == response.average_service_time
            e == response.total_estimate
        IN  /\ e.den > 0
            /\ B > 0 => e.num * 2 * B = (S * T + 2 * W * T) * e.den
            /\ B = 0 => e.num = W * T * e.den
            /\ (W = 5 /\ S = 2 /\ B = 3 /\ T = 30) =>
                  /\ e.num = 60 * e.den
                  /\ response.recommendation = "very_busy"

\* the estimate has just been computed for 5 waiting, 2 in service, 3
\* barbers and an average of 30 minutes
C22_Witness ==
    /\ "total_estimate" \in DOMAIN response
    /\ response.waiting = 5
    /\ response.in_service = 2
    /\ response.active_barbers = 3
    /\ response.average_service_time = 30
    /\ response.new_walkin_wait_minutes = 60

LevelRank(level) ==
    CASE level = "low" -> 1
      [] level = "moderate" -> 2
      [] level = "busy" -> 3
      [] level = "very_busy" -> 4

\* C23: get_wait_recommendation gives low up to 10 minutes, moderate above 10
\* up to 25, busy above 25 up to 45 and very_busy above 45, the upper limits
\* included; the level of a smaller estimate is never higher.
C23_RecommendationThresholds ==
    "level" \in DOMAIN response =>
        LET num == response.wait_minutes.num
            den == response.wait_minutes.den
        IN  /\ response.level = "low" <=> num <= 10 * den
            /\ response.level = "moderate" <=> (10 * den < num /\ num <= 25 * den)
            /\ response.level = "busy" <=> (25 * den < num /\ num <= 45 * den)
            /\ response.level = "very_busy" <=> 45 * den < num
            /\ \A smaller \in 0..num :
                  LevelRank(get_wait_recommendation(Ratio(smaller, den)))
                      <= LevelRank(response.level)

\* the recommendation has just been computed for exactly 25 minutes
C23_Witness ==
    /\ "level" \in DOMAIN response
    /\ response.wait_minutes = Ratio(50, 2)
    /\ response.level = "moderate"

\* C24: remove_from_queue on an entry that is already left, or that is
\* in_service or completed, changes the position of no other entry.
C24_RepeatedRemoveKeepsPositions ==
    [][\A id \in DOMAIN entries :
        ( /\ entries[id].status \in {"left", "in_service", "completed"}
          /\ remove_from_queue(id) ) =>
        \A j \in DOMAIN entries \ {id} :
            entries'[j].position = entries[j].position]_vars

\* C25: from one store state add_to_queue and quick_walkin give the new entry
\* the same position and the same stored estimated_wait: what either stores
\* is what the other would have stored.
C25_JoinPathsAgree ==
    [][/\ \A phone \in Phones : add_to_queue(phone, NoCustomer) =>
            LET queue_entry == entries'[Len(entries) + 1]
            IN  /\ queue_entry.position = max_pos(entries) + 1
                /\ queue_entry.estimated_wait = quick_estimate(entries, barbers)
       /\ \A phone \in Phones, service_id \in ServiceIds :
            (quick_walkin(phone, service_id) /\ Len(entries') > Len(entries)) =>
            LET queue_entry == entries'[Len(entries) + 1]
            IN  /\ queue_entry.position = max_pos(entries) + 1
                /\ queue_entry.estimated_wait = join_estimate(entries, barbers)]_vars

\* C26: a successful quick_checkout of an order marks completed the queue
\* entry the order was started for, and changes no other entry.
C26_CheckoutCompletesItsEntry ==
    [][\A order_id \in DOMAIN orders, tip_percent \in TipPercents :
        (quick_checkout(order_id, tip_percent) /\ response'.status_code = 200) =>
        LET q == orders[order_id].queue_id
        IN  /\ entries'[q].status = "completed"
            /\ \A j \in DOMAIN entries \ {q} : entries'[j] = entries[j]]_vars

\* C27: every order has at most one loyalty transaction of type earned, and
\* no customer has more loyalty or lifetime points than one award of
\* int(subtotal) for each of their orders.
C27_PointsOncePerOrder ==
    /\ \A order_id \in DOMAIN orders :
          Cardinality({t \in DOMAIN loyalty_transactions :
                          /\ loyalty_transactions[t].order_id = order_id
                          /\ loyalty_transactions[t].transaction_type = "earned"}) <= 1
    /\ \A c \in DOMAIN customers :
          LET mine == {o \in DOMAIN orders : orders[o].customer_id = c}
              award == RegularHaircut.base_price \div 100
          IN  /\ customers[c].loyalty_points <= Cardinality(mine) * award
              /\ customers[c].lifetime_points <= Cardinality(mine) * award

\* the sum of the amounts of a card's gift_card_transactions rows, added in
\* the order of the rows, which is the order the balance was built in
RECURSIVE ledger_sum(_, _)
ledger_sum(transactions, id) ==
    IF transactions = <<>> THEN 0
    ELSE ledger_sum(SubSeq(transactions, 1, Len(transactions) - 1), id)
         + (IF transactions[Len(transactions)].gift_card_id = id
            THEN transactions[Len(transactions)].amount ELSE 0)

\* C28: after any sequence of create_gift_card, redeem_gift_card and
\* reload_gift_card calls, each card's current_balance equals the sum of the
\* amounts of its transactions and is not negative; and a redeem that is
\* rejected (unknown code, inactive card, amount greater than the balance)
\* changes neither a balance nor the transactions.
C28_GiftCardLedger ==
    /\ [](\A id \in DOMAIN gift_cards :
            /\ gift_cards[id].current_balance
                 = ledger_sum(gift_card_transactions, id)
            /\ gift_cards[id].current_balance >= 0)
    /\ [][(/\ response'.status_code \in {400, 404}
           /\ \E code \in GiftCodes, amount \in RedeemAmounts :
                 redeem_gift_card(code, amount))
          => UNCHANGED <<gift_cards, gift_card_transactions>>]_vars

\* a card was bought, reloaded and redeemed from, a redeem with a negative
\* amount included, and the last redeem asked for more than the balance
C28_Witness ==
    /\ \E id \in DOMAIN gift_cards :
          /\ \E t \in DOMAIN gift_card_transactions :
                /\ gift_card_transactions[t].gift_card_id = id
                /\ gift_card_transactions[t].transaction_type = "reload"
          /\ \E t \in DOMAIN gift_card_transactions :
                /\ gift_card_transactions[t].gift_card_id = id
                /\ gift_card_transactions[t].transaction_type = "redemption"
                /\ gift_card_transactions[t].amount < 0
          /\ \E t \in DOMAIN gift_card_transactions :
                /\ gift_card_transactions[t].gift_card_id = id
                /\ gift_card_transactions[t].transaction_type = "redemption"
                /\ gift_card_transactions[t].amount > 0
          /\ gift_cards[id].current_balance < 2500
    /\ response = BadRequest("Insufficient balance")

\* the sum of the amounts of the recorded transactions of one type, added
\* in the order they were recorded in
RECURSIVE recorded_sum(_, _)
recorded_sum(transactions, type) ==
    IF transactions = <<>> THEN 0
    ELSE recorded_sum(SubSeq(transactions, 1, Len(transactions) - 1), type)
         + (IF transactions[Len(transactions)].type = type
            THEN transactions[Len(transactions)].amount ELSE 0)

\* C29: record_sale, add_cash, remove_cash and close_drawer called while the
\* drawer is closed, and open_drawer called while it is open, return an
\* error and leave drawer_state unchanged; and while the drawer is open,
\* cash_sales, cash_added and cash_removed are the sums of the amounts of the
\* transactions of type sale, add and remove recorded since the last open.
C29_CashDrawerGuard ==
    /\ [][(\/ /\ ~drawer_state.is_open
              /\ \/ close_drawer
                 \/ \E amount \in CashAmounts :
                       \/ record_sale(amount)
                       \/ add_cash(amount)
                       \/ remove_cash(amount)
           \/ /\ drawer_state.is_open
              /\ \E starting_cash \in StartingCash : open_drawer(starting_cash))
          => /\ "error" \in DOMAIN response'
             /\ UNCHANGED drawer_state]_vars
    /\ [](drawer_state.is_open =>
            /\ drawer_state.cash_sales
                 = recorded_sum(drawer_state.transactions, "sale")
            /\ drawer_state.cash_added
                 = recorded_sum(drawer_state.transactions, "add")
            /\ drawer_state.cash_removed
                 = recorded_sum(drawer_state.transactions, "remove"))

\* the open drawer has a sale and a removal recorded and no cash added, and
\* was just asked to open once more
C29_Witness ==
    /\ drawer_state.is_open
    /\ drawer_state.cash_sales > 0
    /\ drawer_state.cash_removed > 0
    /\ drawer_state.cash_added = 0
    /\ Len(drawer_state.transactions) = 2
    /\ "error" \in DOMAIN response
    /\ response.error = "Drawer already open"

\* C30: after any sequence of subscribe_customer, pause_membership,
\* resume_membership and cancel_membership calls, a customer has at most one
\* membership in status active.
C30_OneActiveMembership ==
    \A customer_id \in DOMAIN customers :
        Cardinality(memberships_of(customer_memberships, customer_id,
                                   {"active"})) <= 1
====
